---------------------------- MODULE Spec2Model ----------------------------
(***************************************************************************)
(* Correction store, frequency/lexicon learner and lexicon applicator of   *)
(* the FinoktAI OCR system (src/main.py, src/ocr/lexicon_processor.py,     *)
(* src/config_manager.py, src/manage.py, src/database/models.py).          *)
(*                                                                         *)
(* Text is a sequence of one-character strings, so that strip(), lower()   *)
(* and the "orig -> corr" frequency key are computed, not assumed.         *)
(*                                                                         *)
(* The HTTP handlers are `async def` coroutines that contain no `await`    *)
(* between their file reads and writes, and the application is served by   *)
(* one event loop (uvicorn.run(app) at the end of main.py): a handler is   *)
(* therefore one atomic action.  What a handler cannot control is the file *)
(* system: every open()/json.load()/json.dump() that the code wraps in a   *)
(* try/except may raise, and the model draws that as the input `fault`.    *)
(***************************************************************************)
EXTENDS Integers, Sequences, FiniteSets, TLC

(*************************** bounds ****************************************)
MaxCalls == 2
MaxClock == 1
MaxWords == 1

(*************************** text ******************************************)
EMPTY == <<>>

LowerChar(c) ==
    CASE c = "A" -> "a"
      [] c = "B" -> "b"
      [] c = "C" -> "c"
      [] c = "D" -> "d"
      [] c = "E" -> "e"
      [] c = "F" -> "f"
      [] c = "X" -> "x"
      [] c = "Y" -> "y"
      [] c = "Z" -> "z"
      [] OTHER   -> c

UpperChar(c) ==
    CASE c = "a" -> "A"
      [] c = "b" -> "B"
      [] c = "c" -> "C"
      [] c = "d" -> "D"
      [] c = "e" -> "E"
      [] c = "f" -> "F"
      [] c = "x" -> "X"
      [] c = "y" -> "Y"
      [] c = "z" -> "Z"
      [] OTHER   -> c

IsUpperChar(c) == c \in {"A", "B", "C", "D", "E", "F", "X", "Y", "Z"}
IsLowerChar(c) == c \in {"a", "b", "c", "d", "e", "f", "x", "y", "z"}
IsSpace(c)     == c = " "

Lower(s) == [i \in 1..Len(s) |-> LowerChar(s[i])]
Upper(s) == [i \in 1..Len(s) |-> UpperChar(s[i])]

\* str.isupper(): at least one cased character and no lowercase one
IsUpper(s) == /\ \E i \in 1..Len(s) : IsUpperChar(s[i])
              /\ \A i \in 1..Len(s) : ~IsLowerChar(s[i])

\* str.islower(): at least one cased character and no uppercase one
IsLower(s) == /\ \E i \in 1..Len(s) : IsLowerChar(s[i])
              /\ \A i \in 1..Len(s) : ~IsUpperChar(s[i])

SetMin(S) == CHOOSE x \in S : \A y \in S : x <= y
SetMax(S) == CHOOSE x \in S : \A y \in S : x >= y

\* str.strip()
Strip(s) ==
    LET idx == {i \in 1..Len(s) : ~IsSpace(s[i])}
    IN  IF idx = {} THEN EMPTY ELSE SubSeq(s, SetMin(idx), SetMax(idx))

\* the inputs of the model: raw OCR tokens and reviewer texts
Texts == { EMPTY, <<"a">>, <<"A">>, <<"b">> }

\* f"{original_text} -> {corrected_text}"
ARROW == <<" ", "-", ">", " ">>
correction_key(original_text, corrected_text) ==
    original_text \o ARROW \o corrected_text


(*************************** JSON dictionaries *****************************)
\* A Python dict read from / written to JSON keeps insertion order: a
\* sequence of [k, v] pairs with pairwise different keys.
DictKeys(d)   == {d[i].k : i \in 1..Len(d)}
DictHas(d, k) == k \in DictKeys(d)
DictGet(d, k) == d[CHOOSE i \in 1..Len(d) : d[i].k = k].v
DictSet(d, k, v) ==
    IF DictHas(d, k)
    THEN [i \in 1..Len(d) |-> IF d[i].k = k THEN [k |-> k, v |-> v] ELSE d[i]]
    ELSE Append(d, [k |-> k, v |-> v])

\* frequency_data: dict "orig -> corr" -> int (its order is never observed)
FreqGet(f, key) == IF key \in DOMAIN f THEN f[key] ELSE 0
FreqSet(f, key, n) ==
    [x \in (DOMAIN f) \cup {key} |-> IF x = key THEN n ELSE f[x]]
NoFreq == [x \in {} |-> 0]

(*************************** files *****************************************)
\* A JSON file is absent, holds well-formed data, or is corrupt (a dump that
\* raised after open("w") truncated the file).  mtime is st_mtime.
AbsentFile(empty) == [state |-> "absent", data |-> empty, mtime |-> 0]

Docs     == {"docA", "docB"}
WordIds  == {"p0_w0"}
DocTypes == {"invoice", "document"}
BBoxes   == {"[0,0,1,1]", "not json"}

\* json.loads(corrected_bbox) succeeds
bbox_parses(corrected_bbox) == corrected_bbox = "[0,0,1,1]"

(*************************** configuration *********************************)
\* ConfigManager._load_config default_config, the keys the learner reads;
\* "document" is the document_type default of the learner and has no entry
\* under document_types.
default_config ==
    [ lexicon_learning_threshold |-> 3,
      auto_correction_enabled    |-> TRUE,
      document_types |-> [ invoice |-> [ lexicon_learning_threshold |-> 1,
                                         auto_correction_enabled    |-> TRUE ] ] ]

\* config.json may override the global threshold (merged over the defaults
\* and validated >= 1 by _load_config); the values a deployment starts with
ConfiguredThresholds == {2, 3}

ConfiguredTypes(cfg) == DOMAIN cfg.document_types

get_learning_threshold(cfg, document_type) ==
    IF document_type \in ConfiguredTypes(cfg)
    THEN cfg.document_types[document_type].lexicon_learning_threshold
    ELSE cfg.lexicon_learning_threshold

is_auto_correction_enabled(cfg, document_type) ==
    IF document_type \in ConfiguredTypes(cfg)
    THEN cfg.document_types[document_type].auto_correction_enabled
    ELSE cfg.auto_correction_enabled

(*************************** state *****************************************)
VARIABLES
    corrections,   \* data/logs/corrections/<doc_id>.json, one file per doc
    frequency,     \* data/lexicons/correction_frequency.json
    lexicon,       \* data/lexicons/auto_corrections.json
    type_lexicon,  \* data/lexicons/<document_type>_corrections.json
    config,        \* ConfigManager.config of the process
    cache,         \* LexiconProcessor.lexicon_cache / cache_timestamp
    lexicons,      \* rows of the database table `lexicons`
    migration,     \* manage.py migrate_lexicons runs: session state
    clock,         \* the last value datetime.utcnow() returned
    last,          \* the last request served and its response
    batch,         \* the last OCR batch given to the applicator and its result
    accepted,      \* history: log entries of the submissions answered "saved"
    calls,         \* history: number of requests served
    deployment     \* models/deployed: active_model.pth, backups, history

vars == << corrections, frequency, lexicon, type_lexicon, config, cache, lexicons,
           migration, clock, last, batch, accepted, calls, deployment >>


\* What `last` keeps of a request: the two texts, and the lexicon key the
\* learner worked on (EMPTY when the request did not get that far).
NoReq ==
    [ original_text |-> EMPTY, corrected_text |-> EMPTY,
      text_for_lexicon |-> EMPTY ]

\* The JSON body of a response, with the HTTP status code.  A body that has
\* no "status" key ({"error": ...}) has status "".
NoResp ==
    [ code |-> 0, status |-> "", message |-> "", lexicon_note |-> "",
      lexicon_updated |-> FALSE, training_data_prepared |-> FALSE,
      correction_frequency |-> 0, lexicon_size |-> 0 ]

ErrorResp(code, message) ==
    [NoResp EXCEPT !.code = code, !.message = message]

\* Concurrent runs of `manage.py migrate-json-to-db`, each its own process
\* with its own SQLAlchemy session.
Migrators   == {"m1", "m2"}
IdleSession == [pc |-> "idle", new |-> EMPTY, dirty |-> EMPTY]

NoBatch == [ document_type |-> "", in |-> EMPTY, out |-> EMPTY,
             applied |-> EMPTY ]

\* lexicon_cache[key] / cache_timestamp[key]; the key of a document type t is
\* f"type_{t}", written t here
CacheKeys == {"global"} \cup DocTypes
NoCache   == [ loaded |-> FALSE, data |-> EMPTY, timestamp |-> 0 ]

\* models/deployed before the first deployment: no active_model.pth, no
\* backup_<time>.pth, no deployment_history.json
NoModel == "none"
NoDeployment ==
    [ active  |-> NoModel,
      backups |-> [t \in 0..MaxClock |-> NoModel],
      history |-> EMPTY ]

Init ==
    /\ corrections = [d \in Docs |-> AbsentFile(EMPTY)]
    /\ frequency   = AbsentFile(NoFreq)
    /\ lexicon     = AbsentFile(EMPTY)
    /\ type_lexicon = [t \in DocTypes |-> AbsentFile(EMPTY)]
    /\ config \in { [default_config EXCEPT !.lexicon_learning_threshold = t] :
                        t \in ConfiguredThresholds }
    /\ cache       = [c \in CacheKeys |-> NoCache]
    /\ lexicons    = EMPTY
    /\ migration   = [m \in Migrators |-> IdleSession]
    /\ clock       = 0
    /\ last        = [op |-> "init", req |-> NoReq, resp |-> NoResp]
    /\ batch       = NoBatch
    /\ accepted    = EMPTY
    /\ calls       = 0
    /\ deployment  = NoDeployment

(*************************** file access ***********************************)
\* try: json.load(f) if path.exists() else <default>  except: <default>
load_json(file, read_fault, default) ==
    IF file.state = "ok" /\ ~read_fault THEN file.data ELSE default

\* with path.open("w") as f: json.dump(data, f)
\*   open_fault: open() raises, the file is untouched
\*   dump_fault: open() has truncated the file and the dump raises
write_json(file, data, open_fault, dump_fault, t, empty) ==
    IF open_fault THEN file
    ELSE IF dump_fault THEN [state |-> "corrupt", data |-> empty, mtime |-> t]
    ELSE [state |-> "ok", data |-> data, mtime |-> t]


(*************************** POST /save_correction *************************)
\* Lines 771-921: what the handler writes and answers once the request has
\* passed validation.  The training-sample task it spawns
\* (asyncio.create_task) writes only under data/training_data and is not
\* part of this state.
save_effects(doc_id, word_id, original_text, corrected_text, text_for_lexicon, fault, now) ==
    LET log_entry ==
            [ document_id |-> doc_id, word_id |-> word_id,
              original_text |-> original_text,
              corrected_text |-> corrected_text, timestamp |-> now ]
        \* lines 791-805
        corrections_data ==
            Append(load_json(corrections[doc_id], fault = "log_read", EMPTY),
                   log_entry)
        \* lines 809-815
        log_raised == fault \in {"log_open_w", "log_dump"}
        log_file   == write_json(corrections[doc_id], corrections_data,
                                 fault = "log_open_w", fault = "log_dump",
                                 now, EMPTY)
        \* lines 823-840
        frequency_data0   == load_json(frequency, fault = "freq_read", NoFreq)
        key               == correction_key(original_text, corrected_text)
        current_frequency == FreqGet(frequency_data0, key) + 1
        frequency_data    == FreqSet(frequency_data0, key, current_frequency)
        freq_raised == fault \in {"freq_open_w", "freq_dump"}
        freq_file   == write_json(frequency, frequency_data,
                                  fault = "freq_open_w", fault = "freq_dump",
                                  now, NoFreq)
        \* lines 845-873
        lexicon_data0 == load_json(lexicon, fault = "lexicon_read", EMPTY)
        changed ==
            IF DictHas(lexicon_data0, text_for_lexicon)
            THEN DictGet(lexicon_data0, text_for_lexicon) # corrected_text
            ELSE TRUE
        lexicon_data ==
            IF changed
            THEN DictSet(lexicon_data0, text_for_lexicon, corrected_text)
            ELSE lexicon_data0
        \* lines 875-882: reached only when the frequency write did not raise
        lexicon_updated == ~freq_raised /\ changed
        lexicon_file ==
            IF lexicon_updated
            THEN write_json(lexicon, lexicon_data, fault = "lexicon_open_w",
                            fault = "lexicon_dump", now, EMPTY)
            ELSE lexicon
        \* lines 904-921
        saved ==
            [ code |-> 200, status |-> "success",
              message |-> "Correction saved successfully",
              lexicon_note |->
                  IF ~lexicon_updated THEN ""
                  ELSE IF DictHas(lexicon_data, original_text)
                       THEN "Lexicon pattern updated"
                       ELSE "Added to lexicon",
              lexicon_updated |-> lexicon_updated,
              training_data_prepared |-> TRUE,
              correction_frequency |-> current_frequency,
              lexicon_size |-> IF freq_raised THEN 0 ELSE Len(lexicon_data) ]
    IN  IF log_raised
        THEN [ corrections |-> [corrections EXCEPT ![doc_id] = log_file],
               frequency |-> frequency, lexicon |-> lexicon,
               accepted |-> accepted,
               resp |-> ErrorResp(500, "Failed to save corrections"),
               key |-> EMPTY ]
        ELSE [ corrections |-> [corrections EXCEPT ![doc_id] = log_file],
               frequency |-> freq_file, lexicon |-> lexicon_file,
               accepted |-> Append(accepted, log_entry),
               resp |-> saved, key |-> text_for_lexicon ]

SaveFaults ==
    { "none", "log_read", "log_open_w", "log_dump",
      "freq_read", "freq_open_w", "freq_dump",
      "lexicon_read", "lexicon_open_w", "lexicon_dump" }

\* validate without the early return of lines 759-761
validate_without_no_change(doc_id, word_id, original_text, corrected_text, corrected_bbox) ==
    IF doc_id = "" \/ word_id = "" \/ original_text = EMPTY
                   \/ corrected_text = EMPTY
    THEN "missing"
    ELSE IF ~bbox_parses(corrected_bbox) THEN "bad_bbox"
    ELSE "ok"

\* Lines 755-769: the early returns of the handler, in the code's order.
validate(doc_id, word_id, original_text, corrected_text, corrected_bbox) ==
    IF doc_id = "" \/ word_id = "" \/ original_text = EMPTY
                   \/ corrected_text = EMPTY
    THEN "missing"
    ELSE IF original_text = corrected_text THEN "no_change"
    ELSE IF ~bbox_parses(corrected_bbox) THEN "bad_bbox"
    ELSE "ok"

\* One request.  The fault the file system produces while it is served and
\* the time utcnow() returns are not chosen by the caller; `faults` is the
\* set of faults the environment may produce.
SaveCorrection(doc_id, word_id, original_text, corrected_text, true_original_text, corrected_bbox, faults) ==
    LET text_for_lexicon ==
            IF true_original_text # EMPTY THEN true_original_text
                                          ELSE original_text
        Answer(resp, key_written) ==
            last' = [ op |-> "save_correction",
                      req |-> [ original_text |-> original_text,
                                corrected_text |-> corrected_text,
                                text_for_lexicon |-> key_written ],
                      resp |-> resp ]
    IN
    /\ calls < MaxCalls
    /\ calls' = calls + 1
    /\ UNCHANGED << deployment,
                    type_lexicon, config, cache, lexicons, migration, batch >>
    /\ LET verdict == validate(doc_id, word_id, original_text, corrected_text,
                            corrected_bbox)
       IN
       IF verdict = "missing"
       THEN /\ Answer(ErrorResp(400, "Missing required parameters"), EMPTY)
            /\ UNCHANGED << corrections, frequency, lexicon, clock, accepted >>
       ELSE IF verdict = "no_change"
       THEN /\ Answer([NoResp EXCEPT !.code = 200, !.status = "success",
                                     !.message = "No change detected"], EMPTY)
            /\ UNCHANGED << corrections, frequency, lexicon, clock, accepted >>
       ELSE IF verdict = "bad_bbox"
       THEN /\ Answer(ErrorResp(400, "Invalid bbox format"), EMPTY)
            /\ UNCHANGED << corrections, frequency, lexicon, clock, accepted >>
       ELSE \E fault \in faults, now \in clock..MaxClock :
              LET e == save_effects(doc_id, word_id, original_text,
                                    corrected_text, text_for_lexicon,
                                    fault, now)
              IN  /\ clock'       = now
                  /\ corrections' = e.corrections
                  /\ frequency'   = e.frequency
                  /\ lexicon'     = e.lexicon
                  /\ accepted'    = e.accepted
                  /\ Answer(e.resp, e.key)

(*************************** LexiconProcessor ******************************)
RECURSIVE DictUpdate(_, _)
\* dict.update(other)
DictUpdate(d, other) ==
    IF other = EMPTY THEN d
    ELSE DictUpdate(DictSet(d, Head(other).k, Head(other).v), Tail(other))

RECURSIVE CollapseSpaces(_)
\* re.sub(r'\s+', ' ', s)
CollapseSpaces(s) ==
    IF Len(s) <= 1 THEN s
    ELSE IF IsSpace(s[1]) /\ IsSpace(s[2]) THEN CollapseSpaces(Tail(s))
    ELSE <<s[1]>> \o CollapseSpaces(Tail(s))

_normalize_for_comparison(text) == CollapseSpaces(Strip(text))

\* the stored value returned as it is, whatever the case of the input
_preserve_case_verbatim(original, corrected) == corrected

_preserve_case(original, corrected) ==
    IF original = EMPTY \/ corrected = EMPTY THEN corrected
    ELSE IF IsUpper(original) THEN Upper(corrected)
    ELSE IF /\ IsUpperChar(original[1])
            /\ Len(original) > 1
            /\ IsLower(Tail(original))
         THEN IF Len(corrected) > 1
              THEN <<UpperChar(corrected[1])>> \o Lower(Tail(corrected))
              ELSE Upper(corrected)
    ELSE IF IsLower(original) THEN Lower(corrected)
    ELSE corrected

\* for original, corrected in lexicon.items(): the first item, in the
\* dict's order, that satisfies the test
_find_correction(original_text, lex) ==
    LET normalized_input == Strip(original_text)
        ci  == {i \in 1..Len(lex) : Lower(lex[i].k) = Lower(normalized_input)}
        nrm == {i \in 1..Len(lex) :
                   _normalize_for_comparison(lex[i].k)
                     = _normalize_for_comparison(normalized_input)}
    IN  IF DictHas(lex, normalized_input) THEN DictGet(lex, normalized_input)
        ELSE IF ci # {}
             THEN _preserve_case(normalized_input, lex[SetMin(ci)].v)
        ELSE IF nrm # {} THEN lex[SetMin(nrm)].v
        ELSE original_text

\* One lexicon file of _load_lexicon: the cache entry after the call and
\* the dict it contributes to combined_lexicon.  read_fault: open() or
\* json.load() raises when the file has to be re-read.
load_cached(file, entry, read_fault) ==
    IF file.state = "absent"
    THEN [entry |-> entry, part |-> EMPTY]
    ELSE IF ~entry.loaded \/ entry.timestamp < file.mtime
    THEN IF file.state = "corrupt" \/ read_fault
         THEN [entry |-> entry, part |-> EMPTY]
         ELSE [entry |-> [loaded |-> TRUE, data |-> file.data,
                          timestamp |-> file.mtime],
               part  |-> file.data]
    ELSE [entry |-> entry, part |-> entry.data]

_load_lexicon(document_type, read_fault) ==
    LET g == load_cached(lexicon, cache["global"], read_fault)
        t == load_cached(type_lexicon[document_type], cache[document_type],
                         read_fault)
    IN  [ cache |-> [cache EXCEPT !["global"] = g.entry,
                                  ![document_type] = t.entry],
          combined_lexicon |-> DictUpdate(g.part, t.part) ]

ABSENT == <<"<absent>">>
\* a word of DocTR's output
RawWord(text) ==
    [ value |-> text, original_value |-> ABSENT, auto_corrected |-> FALSE,
      corrected |-> FALSE ]

\* one word, without the test of line 78 that the value found differs
correct_word_without_change_test(word, lex) ==
    LET original_value  == Strip(word.value)
        corrected_value == _find_correction(original_value, lex)
    IN  IF original_value = EMPTY THEN word
        ELSE [word EXCEPT !.original_value = original_value,
                          !.value = corrected_value,
                          !.auto_corrected = TRUE]

\* lines 67-94, one word
correct_word(word, lex) ==
    LET original_value  == Strip(word.value)
        corrected_value == _find_correction(original_value, lex)
    IN  IF original_value = EMPTY THEN word
        ELSE IF corrected_value # EMPTY /\ corrected_value # original_value
        THEN [word EXCEPT !.original_value = original_value,
                          !.value = corrected_value,
                          !.auto_corrected = TRUE]
        ELSE word

RECURSIVE applied_corrections(_, _)
\* the (original, corrected) pairs of the descriptions appended at line 92
applied_corrections(words, lex) ==
    IF words = EMPTY THEN EMPTY
    ELSE LET w == correct_word(Head(words), lex)
         IN  (IF w # Head(words) THEN << <<w.original_value, w.value>> >>
                                 ELSE EMPTY)
             \o applied_corrections(Tail(words), lex)

TokenSeqs == UNION { [1..n -> Texts] : n \in 0..MaxWords }

ApplyFaults == {"none", "lexicon_read"}

\* LexiconProcessor.apply_lexicon_corrections on the words of one document:
\* the cache after the call and the tuple (corrected_data, applied) returned
apply_lexicon_corrections(document_type, in_words, read_fault) ==
    LET loaded == _load_lexicon(document_type, read_fault)
        lex    == loaded.combined_lexicon
    IN  IF ~is_auto_correction_enabled(config, document_type)
        THEN [ cache |-> cache, words |-> in_words, applied |-> EMPTY ]
        ELSE IF lex = EMPTY
        THEN [ cache |-> loaded.cache, words |-> in_words, applied |-> EMPTY ]
        ELSE [ cache |-> loaded.cache,
               words |-> [i \in 1..Len(in_words) |->
                             correct_word(in_words[i], lex)],
               applied |-> applied_corrections(in_words, lex) ]

\* POST /upload, step 2.6: the freshly recognised words of a document go
\* through the applicator.  The step first calls _load_lexicon itself
\* (line 92), so the cache is refreshed also when auto-correction is
\* disabled.
ApplyLexiconStep(document_type, tokens, fault) ==
    LET in_words == [i \in 1..Len(tokens) |-> RawWord(tokens[i])]
        r == apply_lexicon_corrections(document_type, in_words,
                                       fault = "lexicon_read")
    IN  /\ last' = [op |-> "apply_lexicon_corrections", req |-> NoReq,
                    resp |-> NoResp]
        /\ cache' = _load_lexicon(document_type, fault = "lexicon_read").cache
        /\ batch' = [ document_type |-> document_type, in |-> in_words,
                      out |-> r.words, applied |-> r.applied ]
        /\ UNCHANGED << deployment,
                        corrections, frequency, lexicon, type_lexicon, config,
                        lexicons, migration, clock, accepted >>

\* the step as one of the requests counted by `calls`
ApplyLexicon(document_type, tokens, fault) ==
    /\ calls < MaxCalls
    /\ calls' = calls + 1
    /\ ApplyLexiconStep(document_type, tokens, fault)

(*************************** POST /api/config/update ***********************)
ConfigKeys ==
    { "lexicon_learning_threshold", "auto_correction_enabled",
      "document_types.invoice.lexicon_learning_threshold",
      "document_types.invoice.auto_correction_enabled" }
ConfigValues == { "0", "1", "2", "true" }

\* int(value); NotInt when int() raises ValueError
NotInt == -1
parse_int(value) ==
    CASE value = "0" -> 0
      [] value = "1" -> 1
      [] value = "2" -> 2
      [] OTHER       -> NotInt

\* value.lower() in ("true", "1", "yes")
parse_enabled(value) == value \in {"true", "1", "yes"}

\* ConfigManager.update for the dotted keys of ConfigKeys
config_update(cfg, key, value) ==
    CASE key = "lexicon_learning_threshold" ->
           [cfg EXCEPT !.lexicon_learning_threshold = value]
      [] key = "auto_correction_enabled" ->
           [cfg EXCEPT !.auto_correction_enabled = value]
      [] key = "document_types.invoice.lexicon_learning_threshold" ->
           [cfg EXCEPT
              !.document_types.invoice.lexicon_learning_threshold = value]
      [] key = "document_types.invoice.auto_correction_enabled" ->
           [cfg EXCEPT
              !.document_types.invoice.auto_correction_enabled = value]

IsThresholdKey(key) ==
    key \in { "lexicon_learning_threshold",
              "document_types.invoice.lexicon_learning_threshold" }

UpdateConfig(key, value) ==
    /\ calls < MaxCalls
    /\ calls' = calls + 1
    /\ IF IsThresholdKey(key) /\ parse_int(value) = NotInt
       THEN /\ last' = [op |-> "update_system_config", req |-> NoReq,
                        resp |-> ErrorResp(500,
                                    "Failed to update configuration")]
            /\ UNCHANGED config
       ELSE /\ config' = config_update(config, key,
                            IF IsThresholdKey(key) THEN parse_int(value)
                                                   ELSE parse_enabled(value))
            /\ last' = [op |-> "update_system_config", req |-> NoReq,
                        resp |-> [NoResp EXCEPT !.code = 200,
                                                !.status = "success"]]
    /\ UNCHANGED << deployment,
                    corrections, frequency, lexicon, type_lexicon, cache,
                    lexicons, migration, clock, batch, accepted >>

(*************************** update_lexicon_async **************************)
LearnFaults ==
    { "none", "freq_read", "freq_open_w", "freq_dump", "lexicon_read",
      "lexicon_open_w", "lexicon_dump", "config" }

\* A helper of main.py that no route calls; it is the learner that honours
\* the configured threshold.
UpdateLexiconAsync(original_text, corrected_text, doc_id, document_type, fault, now) ==
    LET \* lines 1285-1309
        frequency_data0   == load_json(frequency, fault = "freq_read", NoFreq)
        key               == correction_key(original_text, corrected_text)
        current_frequency == FreqGet(frequency_data0, key) + 1
        frequency_data    == FreqSet(frequency_data0, key, current_frequency)
        \* lines 1311-1331
        lexicon_data0 == load_json(lexicon, fault = "lexicon_read", EMPTY)
        learning_threshold ==
            IF fault = "config" THEN 1
            ELSE get_learning_threshold(config, document_type)
        \* lines 1335-1347
        changed ==
            /\ current_frequency >= learning_threshold
            /\ IF DictHas(lexicon_data0, original_text)
               THEN DictGet(lexicon_data0, original_text) # corrected_text
               ELSE TRUE
        lexicon_data ==
            IF changed THEN DictSet(lexicon_data0, original_text, corrected_text)
                       ELSE lexicon_data0
        \* lines 1349-1356
        lexicon_raised == fault \in {"lexicon_open_w", "lexicon_dump"}
    IN  /\ calls < MaxCalls
        /\ calls' = calls + 1
        /\ clock' = now
        /\ frequency' = write_json(frequency, frequency_data,
                                   fault = "freq_open_w", fault = "freq_dump",
                                   now, NoFreq)
        /\ lexicon' = IF changed
                      THEN write_json(lexicon, lexicon_data,
                                      fault = "lexicon_open_w",
                                      fault = "lexicon_dump", now, EMPTY)
                      ELSE lexicon
        /\ last' = [ op |-> "update_lexicon_async",
                     req |-> [ original_text |-> original_text,
                               corrected_text |-> corrected_text,
                               text_for_lexicon |-> original_text ],
                     resp |-> [NoResp EXCEPT
                                 !.lexicon_updated = changed /\ ~lexicon_raised,
                                 !.correction_frequency = current_frequency,
                                 !.lexicon_size = Len(lexicon_data)] ]
        /\ UNCHANGED << deployment,
                        corrections, type_lexicon, config, cache, lexicons,
                        migration, batch, accepted >>


(*************************** manage.py migrate_lexicons ********************)
\* The table `lexicons` is the sequence of its rows, in insertion order; the
\* uuid4 primary key is the row's position.  Column `misspelled` is declared
\* unique=True (models.py line 84), document_type defaults to 'global'.
Row(misspelled, corrected, freq) ==
    [ misspelled |-> misspelled, corrected |-> corrected,
      document_type |-> "global", frequency |-> freq ]

RowsOf(table, misspelled) ==
    {i \in 1..Len(table) : table[i].misspelled = misspelled}

\* the table without the unique index
violates_unique_never(table, row) == FALSE

\* the unique index on lexicons.misspelled: an INSERT of `row` is refused
\* when a committed row has the same value
violates_unique(table, row) == RowsOf(table, row.misspelled) # {}

\* frequency_data.get(original_term, {}).get(corrected_term, 1): the file
\* is keyed by "orig -> corr", so the lookup by original_term finds nothing
\* unless a lexicon key is itself a frequency key (then .get on an int raises)
migrated_frequency(freq, original_term) == 1

\* lines 134-159: the loop over lexicon_data.items(); each term is looked up
\* with filter_by(misspelled=original_term).first() and either modified in
\* the session or added to it.  Nothing is visible to other sessions before
\* the commit.
MigrateLexiconsLoop(m) ==
    LET data  == lexicon.data
        isNew(i) == RowsOf(lexicons, data[i].k) = {}
        newIx == {i \in 1..Len(data) : isNew(i)}
        oldIx == {i \in 1..Len(data) : ~isNew(i)}
        pick(ix) ==
            LET RECURSIVE build(_)
                build(i) ==
                    IF i > Len(data) THEN EMPTY
                    ELSE (IF i \in ix
                          THEN << Row(data[i].k, data[i].v,
                                      migrated_frequency(frequency.data,
                                                         data[i].k)) >>
                          ELSE EMPTY) \o build(i + 1)
            IN  build(1)
    IN  /\ migration[m].pc = "idle"
        /\ lexicon.state = "ok"
        /\ frequency.state # "corrupt"
        /\ \A i \in 1..Len(data) : data[i].k \notin DOMAIN frequency.data
        /\ migration' = [migration EXCEPT ![m] =
                            [ pc |-> "loaded", new |-> pick(newIx),
                              dirty |-> pick(oldIx) ]]
        /\ last' = [op |-> "migrate_lexicons", req |-> NoReq, resp |-> NoResp]
        /\ UNCHANGED << deployment,
                        corrections, frequency, lexicon, type_lexicon, config,
                        cache, lexicons, clock, batch, accepted, calls >>

RECURSIVE apply_updates(_, _)
\* UPDATE lexicons SET corrected, frequency WHERE id = <the row read>
apply_updates(table, dirty) ==
    IF dirty = EMPTY THEN table
    ELSE apply_updates(
           [i \in 1..Len(table) |->
              IF table[i].misspelled = Head(dirty).misspelled
              THEN [table[i] EXCEPT !.corrected = Head(dirty).corrected,
                                    !.frequency = Head(dirty).frequency]
              ELSE table[i]],
           Tail(dirty))

\* lines 161-162: session.commit() flushes the UPDATEs and INSERTs; an
\* INSERT that the unique index refuses raises IntegrityError, the
\* transaction is rolled back and the run ends.
MigrateLexiconsCommit(m) ==
    LET s == migration[m]
        refused == \E i \in 1..Len(s.new) : violates_unique(lexicons, s.new[i])
    IN  /\ s.pc = "loaded"
        /\ lexicons' = IF refused THEN lexicons
                       ELSE apply_updates(lexicons, s.dirty) \o s.new
        /\ migration' = [migration EXCEPT ![m] = IdleSession]
        /\ last' = [op |-> "migrate_lexicons_commit", req |-> NoReq,
                    resp |-> [NoResp EXCEPT
                                !.status = IF refused THEN "IntegrityError"
                                                      ELSE "committed"]]
        /\ UNCHANGED << deployment,
                        corrections, frequency, lexicon, type_lexicon, config,
                        cache, clock, batch, accepted, calls >>

(*************************** specifications ********************************)
SaveCorrectionCall ==
    \E doc_id \in Docs, word_id \in WordIds, original_text \in Texts,
       corrected_text \in Texts, true_original_text \in Texts,
       corrected_bbox \in BBoxes :
        SaveCorrection(doc_id, word_id, original_text, corrected_text,
                       true_original_text, corrected_bbox, SaveFaults)

ApplyLexiconCall ==
    \E document_type \in DocTypes, tokens \in TokenSeqs,
       fault \in ApplyFaults :
        ApplyLexicon(document_type, tokens, fault)

UpdateConfigCall ==
    \E key \in ConfigKeys, value \in ConfigValues : UpdateConfig(key, value)

UpdateLexiconAsyncCall ==
    \E original_text \in Texts, corrected_text \in Texts, doc_id \in Docs,
       document_type \in DocTypes, fault \in LearnFaults,
       now \in clock..MaxClock :
        UpdateLexiconAsync(original_text, corrected_text, doc_id,
                           document_type, fault, now)

\* The application as main.py wires it.
Next ==
    \/ SaveCorrectionCall
    \/ ApplyLexiconCall
    \/ UpdateConfigCall

Spec == Init /\ [][Next]_vars

\* The threshold learner on its own, with the applicator and the
\* configuration it reads.
NextLearner ==
    \/ UpdateLexiconAsyncCall
    \/ ApplyLexiconCall
    \/ UpdateConfigCall

SpecLearner == Init /\ [][NextLearner]_vars

\* One reviewer working on one document whose words are corrected for the
\* first time (no true_original_text), on a file system that may fail.
SaveCorrectionSession ==
    \E original_text \in Texts, corrected_text \in Texts :
        SaveCorrection("docA", "p0_w0", original_text, corrected_text,
                       EMPTY, "[0,0,1,1]", SaveFaults)

NextSession == SaveCorrectionSession

SpecSession == Init /\ [][NextSession]_vars

\* The lexicon file as the application fills it and concurrent runs of the
\* lexicon migration.
MigratedTexts == { <<"a">>, <<"b">> }

SaveCorrectionForMigration ==
    \E original_text \in MigratedTexts, corrected_text \in MigratedTexts :
        SaveCorrection("docA", "p0_w0", original_text, corrected_text,
                       EMPTY, "[0,0,1,1]", {"none"})

NextMigrate ==
    \/ SaveCorrectionForMigration
    \/ \E m \in Migrators : MigrateLexiconsLoop(m)
    \/ \E m \in Migrators : MigrateLexiconsCommit(m)

SpecMigrate == Init /\ [][NextMigrate]_vars


(*************************** correction resolver ***************************)
\* The multi-strategy resolver of the design (section 4.2): it works on the
\* whole correction history, the records of the document followed by those
\* of every other document, each list read newest first.
Filler == {"<", "*", ".", " "}

RECURSIVE strip_filler(_)
\* V with trailing filler stripped from the right
strip_filler(s) ==
    IF s = EMPTY THEN s
    ELSE IF s[Len(s)] \in Filler THEN strip_filler(SubSeq(s, 1, Len(s) - 1))
    ELSE s

\* the short-suffix bound of the prefix strategy ("< 5 characters")
ShortSuffixBound == 5

\* str.startswith
starts_with(s, prefix) ==
    Len(prefix) <= Len(s) /\ SubSeq(s, 1, Len(prefix)) = prefix

\* a record that has both text fields
has_text_fields(c) == c.original_text # EMPTY /\ c.corrected_text # EMPTY

\* the records of one document that the store can return
stored_corrections(d) ==
    IF corrections[d].state = "ok" THEN corrections[d].data ELSE EMPTY

RECURSIVE concat_logs(_)
concat_logs(D) ==
    IF D = {} THEN EMPTY
    ELSE LET d == CHOOSE x \in D : TRUE
         IN  stored_corrections(d) \o concat_logs(D \ {d})

\* the orders in which a list "ordered by timestamp descending" may come
\* back: records of equal timestamp come in any order
Orderings(records) ==
    IF records = EMPTY THEN { EMPTY }
    ELSE { o \in { [i \in 1..Len(records) |-> records[p[i]]] :
                     p \in Permutations(1..Len(records)) } :
             \A i, j \in 1..Len(o) :
                 i < j => o[i].timestamp >= o[j].timestamp }

\* list_for_document(document_id) followed by list_global(excluding it)
ReadOrders(doc_id) ==
    { own \o other : own \in Orderings(stored_corrections(doc_id)),
                     other \in Orderings(concat_logs(Docs \ {doc_id})) }

\* the key of a record in the exact map and in the fuzzy map
key_of(c, fuzzy) ==
    IF fuzzy THEN strip_filler(c.original_text) ELSE c.original_text

RECURSIVE build_map(_, _)
\* exact map (fuzzy = FALSE) and fuzzy map (fuzzy = TRUE): on key collision
\* only the timestamp-maximal entry is kept, of several the one read first;
\* a record without its text fields is skipped
build_map(history, fuzzy) ==
    IF history = EMPTY THEN EMPTY
    ELSE LET m == build_map(SubSeq(history, 1, Len(history) - 1), fuzzy)
             c == history[Len(history)]
             k == key_of(c, fuzzy)
             e == [text |-> c.corrected_text, timestamp |-> c.timestamp]
         IN  IF ~has_text_fields(c) THEN m
             ELSE IF DictHas(m, k) /\ DictGet(m, k).timestamp >= c.timestamp
                  THEN m
             ELSE DictSet(m, k, e)

Candidate(text, timestamp, priority) ==
    [text |-> text, timestamp |-> timestamp, priority |-> priority]

RECURSIVE prefix_candidates(_, _)
\* prefix: every record whose stripped original starts V_clean and leaves a
\* suffix of V shorter than the bound gives corr + leftover suffix
prefix_candidates(history, V) ==
    IF history = EMPTY THEN EMPTY
    ELSE LET c == Head(history)
             orig_clean == strip_filler(c.original_text)
             leftover   == SubSeq(V, Len(orig_clean) + 1, Len(V))
         IN  (IF /\ has_text_fields(c)
                 /\ orig_clean # EMPTY
                 /\ starts_with(strip_filler(V), orig_clean)
                 /\ Len(leftover) < ShortSuffixBound
              THEN << Candidate(c.corrected_text \o leftover, c.timestamp, 3) >>
              ELSE EMPTY)
             \o prefix_candidates(Tail(history), V)

RECURSIVE case_candidates(_, _)
\* case-insensitive: every exact-map key K with K.lower() == V.lower(), K # V
case_candidates(exact, V) ==
    IF exact = EMPTY THEN EMPTY
    ELSE (IF Lower(Head(exact).k) = Lower(V) /\ Head(exact).k # V
          THEN << Candidate(Head(exact).v.text, Head(exact).v.timestamp, 4) >>
          ELSE EMPTY)
         \o case_candidates(Tail(exact), V)

\* step 3: the candidates of V, in the order they are generated
candidates(history, V) ==
    LET exact   == build_map(history, FALSE)
        fuzzy   == build_map(history, TRUE)
        V_clean == strip_filler(V)
    IN  (IF DictHas(exact, V)
         THEN << Candidate(DictGet(exact, V).text,
                           DictGet(exact, V).timestamp, 1) >>
         ELSE EMPTY)
        \o (IF DictHas(fuzzy, V_clean)
            THEN << Candidate(DictGet(fuzzy, V_clean).text,
                              DictGet(fuzzy, V_clean).timestamp, 2) >>
            ELSE EMPTY)
        \o prefix_candidates(history, V)
        \o case_candidates(exact, V)

\* the same list sorted by priority first and timestamp second
winner_by_priority(cands) ==
    LET minp == SetMin({cands[i].priority : i \in 1..Len(cands)})
        best == {i \in 1..Len(cands) : cands[i].priority = minp}
        maxt == SetMax({cands[i].timestamp : i \in best})
    IN  cands[SetMin({i \in best : cands[i].timestamp = maxt})]

\* step 5: sort by (timestamp descending, priority ascending), stable, and
\* pick the first
winner(cands) ==
    LET maxt == SetMax({cands[i].timestamp : i \in 1..Len(cands)})
        best == {i \in 1..Len(cands) : cands[i].timestamp = maxt}
        minp == SetMin({cands[i].priority : i \in best})
    IN  cands[SetMin({i \in best : cands[i].priority = minp})]

correction_method(priority) ==
    CASE priority = 1 -> "exact"
      [] priority = 2 -> "fuzzy"
      [] priority = 3 -> "prefix"
      [] OTHER        -> "case_insensitive"

\* steps 4 and 6 for one word
resolve_word(history, word) ==
    LET cands == candidates(history, word.value)
    IN  IF cands = EMPTY THEN word
        ELSE [word EXCEPT !.value = winner(cands).text,
                          !.original_value = word.value,
                          !.corrected = TRUE]

RECURSIVE resolved_methods(_, _)
\* the annotation (original value, method) of every word that was resolved
resolved_methods(history, words) ==
    IF words = EMPTY THEN EMPTY
    ELSE LET cands == candidates(history, Head(words).value)
         IN  (IF cands = EMPTY THEN EMPTY
              ELSE << << Head(words).value,
                         correction_method(winner(cands).priority) >> >>)
             \o resolved_methods(history, Tail(words))

\* apply_corrections(document_id, word_stream) on the history as read
apply_corrections(history, in_words) ==
    [ words   |-> [i \in 1..Len(in_words) |-> resolve_word(history, in_words[i])],
      applied |-> resolved_methods(history, in_words) ]

\* One document access: the history is re-read, in one of the orders the
\* store may return it, and the word stream of the document is resolved.
\* A document can still be opened after the last correction was submitted.
ResolveStream(doc_id, tokens, history) ==
    LET in_words == [i \in 1..Len(tokens) |-> RawWord(tokens[i])]
        r == apply_corrections(history, in_words)
    IN  /\ calls <= MaxCalls
        /\ calls' = calls + 1
        /\ last' = [op |-> "apply_corrections", req |-> NoReq, resp |-> NoResp]
        /\ batch' = [ document_type |-> "", document_id |-> doc_id,
                      history |-> history, in |-> in_words,
                      out |-> r.words, applied |-> r.applied ]
        /\ UNCHANGED << deployment,
                        corrections, frequency, lexicon, type_lexicon, config,
                        cache, lexicons, migration, clock, accepted >>

\* The texts of the resolver's cases: a key with two corrections, the key in
\* another case, and the example of the design with its filler suffix
ABCDEF == <<"A", "B", "C", "D", "E", "F">>
ABCXYZ == <<"A", "B", "C", "X", "Y", "Z">>
ResolverCorrections ==
    { << <<"a">>, <<"b">> >>, << <<"a">>, <<"c">> >>, << <<"A">>, <<"c">> >>,
      << ABCDEF, ABCXYZ >> }
ResolverTokens == { <<"a">>, ABCDEF \o <<"<", "<", "<">> }
ResolverTokenSeqs == UNION { [1..n -> ResolverTokens] : n \in 0..MaxWords }

SaveCorrectionForResolver ==
    \E c \in ResolverCorrections :
        SaveCorrection("docA", "p0_w0", c[1], c[2], EMPTY, "[0,0,1,1]", {"none"})

\* Corrections are submitted on docA and the stream resolved is that of
\* docB: the history is the same whichever document is opened.
ResolveStreamCall ==
    \E tokens \in ResolverTokenSeqs, history \in ReadOrders("docB") :
        ResolveStream("docB", tokens, history)

NextResolver ==
    \/ SaveCorrectionForResolver
    \/ ResolveStreamCall

SpecResolver == Init /\ [][NextResolver]_vars

(*************************** CorrectionIntegrator **************************)
\* The corrections log read at export time is a file of one JSON record per
\* line that no code of the application writes: its content is an input.
MaxLines == 3

\* A line of the log: a record with every field ("ok"), text that is not
\* JSON, an object without one of the fields read, or JSON that is not an
\* object (a list, a number, null).
LogLine(kind, document_id, corrected_text) ==
    [ kind |-> kind, document_id |-> document_id, word_id |-> "w0",
      original_text |-> <<"a">>, corrected_text |-> corrected_text ]

LogLines ==
    { LogLine("ok", "docA", <<"b">>), LogLine("ok", "docB", <<"b">>),
      LogLine("ok", "docB", <<"c">>), LogLine("bad_json", "", EMPTY),
      LogLine("missing_field", "docB", <<"b">>),
      LogLine("not_object", "", EMPTY) }

Logs == UNION { [1..n -> LogLines] : n \in 0..MaxLines }

RECURSIVE _load_corrections(_, _)
\* lines 87-119: JSONDecodeError, KeyError and ValueError skip the line; the
\* AttributeError of `.get` on JSON that is not an object is caught by the
\* outer handler only, which ends the loop with what was loaded before
_load_corrections(log, doc_id) ==
    IF log = EMPTY THEN EMPTY
    ELSE IF Head(log).kind = "not_object" THEN EMPTY
    ELSE IF Head(log).kind = "ok" /\ Head(log).document_id = doc_id
         THEN << Head(log) >> \o _load_corrections(Tail(log), doc_id)
    ELSE _load_corrections(Tail(log), doc_id)

\* lines 121-155: the last loaded correction of a word id replaces the value
\* of the word with that index
_apply_corrections_to_ocr(words, loaded) ==
    [ i \in 1..Len(words) |->
        LET word_id == IF i = 1 THEN "w0" ELSE IF i = 2 THEN "w1" ELSE "w2"
            hits    == { k \in 1..Len(loaded) : loaded[k].word_id = word_id }
        IN  IF hits = {} THEN words[i]
            ELSE [ words[i] EXCEPT
                     !.original_value = words[i].value,
                     !.value = loaded[SetMax(hits)].corrected_text,
                     !.corrected = TRUE ] ]

\* lines 55-78
apply_corrections_to_export(doc_id, words, log) ==
    LET loaded == _load_corrections(log, doc_id)
    IN  IF loaded = EMPTY THEN words
        ELSE _apply_corrections_to_ocr(words, loaded)

\* POST /update_ocr_data, lines 963-979: the word the reviewer corrected in
\* the stored OCR data; the original value is stored if not already stored
update_ocr_word(word, corrected_text) ==
    [ word EXCEPT !.original_value = IF @ = ABSENT THEN word.value ELSE @,
                  !.value = corrected_text,
                  !.corrected = TRUE ]

\* What an export returns depends on its inputs only and it leaves every
\* file as it was: one call per behaviour covers every call.
ApplyCorrectionsToExport(doc_id, in_words, log) ==
        /\ calls = 0
        /\ calls' = 1
        /\ last' = [ op |-> "apply_corrections_to_export", req |-> NoReq,
                     resp |-> NoResp ]
        /\ batch' = [ document_type |-> "", document_id |-> doc_id,
                      log |-> log, in |-> in_words,
                      out |-> apply_corrections_to_export(doc_id, in_words, log),
                      applied |-> _load_corrections(log, doc_id) ]
        /\ UNCHANGED << deployment,
                        corrections, frequency, lexicon, type_lexicon, config,
                        cache, lexicons, migration, clock, accepted >>

\* The OCR data read at export holds the words as recognised or as the
\* reviewer corrected them in the viewer (main.py, lines 1078-1081).
NextExport ==
    \E doc_id \in Docs, tokens \in ResolverTokenSeqs, log \in Logs :
        \E manual \in [1..Len(tokens) -> {EMPTY, <<"c">>}] :
            ApplyCorrectionsToExport(doc_id,
                [i \in 1..Len(tokens) |->
                    IF manual[i] = EMPTY THEN RawWord(tokens[i])
                    ELSE update_ocr_word(RawWord(tokens[i]), manual[i])],
                log)

SpecExport == Init /\ [][NextExport]_vars

(*************************** normalize.apply_lexicon_corrections ***********)
\* \w of the pattern, on the characters of the model
IsWordChar(c) == IsUpperChar(c) \/ IsLowerChar(c)

\* \b between text[p] and text[p+1] (p = 0: start, p = Len(text): end)
word_boundary(text, p) ==
    (p >= 1 /\ IsWordChar(text[p])) # (p < Len(text) /\ IsWordChar(text[p + 1]))

\* r'\b' + re.escape(original) + r'\b' with re.IGNORECASE matches at p
pattern_matches_at(text, original, p) ==
    /\ original # EMPTY
    /\ p + Len(original) - 1 <= Len(text)
    /\ Lower(SubSeq(text, p, p + Len(original) - 1)) = Lower(original)
    /\ word_boundary(text, p - 1)
    /\ word_boundary(text, p + Len(original) - 1)

re_search(original, text) ==
    \E p \in 1..Len(text) : pattern_matches_at(text, original, p)

RECURSIVE re_sub_from(_, _, _, _)
\* re.sub: the non-overlapping matches from the left, each replaced
re_sub_from(original, corrected, text, p) ==
    IF p > Len(text) THEN EMPTY
    ELSE IF pattern_matches_at(text, original, p)
         THEN corrected \o re_sub_from(original, corrected, text, p + Len(original))
    ELSE << text[p] >> \o re_sub_from(original, corrected, text, p + 1)

RECURSIVE apply_items(_, _, _)
\* for original, corrected in lexicon.items(): lines 83-88 and 96-100; r is
\* the pair (corrected_text, corrections_applied) so far
apply_items(items, r, type_specific) ==
    IF items = EMPTY THEN r
    ELSE apply_items(Tail(items),
             IF re_search(Head(items).k, r.text)
             THEN [ text |-> re_sub_from(Head(items).k, Head(items).v, r.text, 1),
                    applied |-> Append(r.applied,
                        << Head(items).k, Head(items).v, type_specific >>) ]
             ELSE r,
             type_specific)

\* lines 65-107: both files are read on every call; an unreadable file raises
\* and the handler returns the text it was given with the list built so far
normalize_apply_lexicon_corrections(text, document_type) ==
    LET none == [text |-> text, applied |-> EMPTY]
        g    == apply_items(lexicon.data, none, FALSE)
    IN  IF lexicon.state = "absent" THEN none
        ELSE IF lexicon.state = "corrupt" THEN none
        ELSE IF type_lexicon[document_type].state = "absent" THEN g
        ELSE IF type_lexicon[document_type].state = "corrupt"
             THEN [text |-> text, applied |-> g.applied]
        ELSE apply_items(type_lexicon[document_type].data, g, TRUE)

\* normalize_text on the full text of a document
NormalizeText(document_type, text) ==
    LET r == normalize_apply_lexicon_corrections(text, document_type)
    IN  /\ calls <= MaxCalls
        /\ calls' = calls + 1
        /\ last' = [op |-> "normalize_text", req |-> NoReq, resp |-> NoResp]
        /\ batch' = [ document_type |-> document_type, in |-> text,
                      out |-> r.text, applied |-> r.applied ]
        /\ UNCHANGED << deployment,
                        corrections, frequency, lexicon, type_lexicon, config,
                        cache, lexicons, migration, clock, accepted >>

\* data/lexicons/{document_type}_corrections.json is read by both applicators
\* and written by no code of the application: it is put there by hand.
InstallTypeLexicon(document_type, data) ==
    /\ type_lexicon[document_type].state = "absent"
    /\ type_lexicon' = [type_lexicon EXCEPT ![document_type] =
                           [state |-> "ok", data |-> data, mtime |-> clock]]
    /\ last' = [op |-> "install_type_lexicon", req |-> NoReq, resp |-> NoResp]
    /\ UNCHANGED << deployment,
                    corrections, frequency, lexicon, config, cache, lexicons,
                    migration, clock, batch, accepted, calls >>

\* The texts of the applicator's cases: a key in lower and in upper case with
\* a value of mixed case, tokens in every case pattern, a key whose value is
\* itself in another case, a key that ends in a filler character, and a
\* type-specific value for the first key
ApplicatorCorrections ==
    { << <<"a", "b">>, <<"b", "A">> >>, << <<"A", "B">>, <<"b", "A">> >>,
      << <<"a">>, <<"A">> >>, << <<"a", "<">>, <<"c">> >> }
ApplicatorTokens ==
    { <<"a", "b">>, <<"A", "B">>, <<"A", "b">>, <<"a", "B">>, <<"A">> }
ApplicatorTexts == { <<"a", "b">>, <<"A">>, <<"a", "<", "b">> }
TypeLexicons == { << [k |-> <<"a", "b">>, v |-> <<"c">>] >> }

SaveCorrectionForApplicator ==
    \E c \in ApplicatorCorrections :
        SaveCorrection("docA", "p0_w0", c[1], c[2], EMPTY, "[0,0,1,1]", {"none"})

ApplyLexiconAfterSave ==
    \E tokens \in UNION { [1..n -> ApplicatorTokens] : n \in 0..MaxWords } :
        ApplyLexicon("invoice", tokens, "none")

NextApplicator ==
    \/ SaveCorrectionForApplicator
    \/ \E data \in TypeLexicons : InstallTypeLexicon("invoice", data)
    \/ ApplyLexiconAfterSave
    \/ \E text \in ApplicatorTexts : NormalizeText("invoice", text)

SpecApplicator == Init /\ [][NextApplicator]_vars

\* Corrections and uploads through one LexiconProcessor (the instance of
\* get_lexicon_processor): the uploads between two corrections are not
\* counted, each only re-reads the lexicon and replaces the last batch.
UploadBetweenSaves ==
    /\ \E tokens \in UNION { [1..n -> ApplicatorTokens] : n \in 0..MaxWords } :
            ApplyLexiconStep("invoice", tokens, "none")
    /\ UNCHANGED calls

NextCache ==
    \/ SaveCorrectionForApplicator
    \/ UploadBetweenSaves

SpecCache == Init /\ [][NextCache]_vars

(*************************** ModelDeploymentManager ************************)
\* models/ocr_weights/*.pth, named by their contents
Models == {"m1.pth", "m2.pth", "m3.pth"}

\* backup_path of a record: the time in the name of the backup file, or
\* NoBackup for None and for a record without the key
NoBackup == -1

\* deploy_model(model_filename).  The backup and the deployed copy are named
\* by utcnow() to the second, `now` here; a backup made in the same second
\* as an earlier one replaces it (shutil.copy2).
DeployModel(model_filename, now) ==
    LET backup_path == IF deployment.active # NoModel THEN now ELSE NoBackup
        deployment_record ==
            [ action |-> "deploy", source_model |-> model_filename,
              backup_path |-> backup_path ]
    IN  /\ Len(deployment.history) <= MaxCalls
        /\ clock' = now
        /\ IF model_filename \notin Models
           THEN /\ last' = [op |-> "deploy_model", req |-> NoReq,
                            resp |-> ErrorResp(404, "Model not found")]
                /\ UNCHANGED deployment
           ELSE /\ deployment' =
                     [ active  |-> model_filename,
                       backups |-> IF backup_path = NoBackup
                                   THEN deployment.backups
                                   ELSE [deployment.backups EXCEPT
                                            ![now] = deployment.active],
                       history |-> Append(deployment.history,
                                          deployment_record) ]
                /\ last' = [op |-> "deploy_model", req |-> NoReq,
                            resp |-> [NoResp EXCEPT !.code = 200,
                                         !.status = "success",
                                         !.message = "Model deployed successfully"]]
        /\ UNCHANGED << corrections, frequency, lexicon, type_lexicon, config,
                        cache, lexicons, migration, batch, accepted, calls >>

\* POST /api/models/rollback: rollback_to_previous, a ValueError answered 400
\* and any other exception 500
RollbackModel(now) ==
    LET history     == deployment.history
        previous    == history[Len(history) - 1]
        backup_path == previous.backup_path
    IN  /\ Len(history) <= MaxCalls
        /\ clock' = now
        /\ IF Len(history) < 2
           THEN /\ last' = [op |-> "rollback_model", req |-> NoReq,
                            resp |-> ErrorResp(400,
                                "No previous deployment found to rollback to")]
                /\ UNCHANGED deployment
           ELSE IF backup_path = NoBackup
           THEN /\ last' = [op |-> "rollback_model", req |-> NoReq,
                            resp |-> ErrorResp(400,
                                "No backup available for previous deployment")]
                /\ UNCHANGED deployment
           ELSE IF deployment.backups[backup_path] = NoModel
           THEN /\ last' = [op |-> "rollback_model", req |-> NoReq,
                            resp |-> ErrorResp(500, "Rollback failed")]
                /\ UNCHANGED deployment
           ELSE /\ deployment' =
                     [ deployment EXCEPT
                         !.active  = deployment.backups[backup_path],
                         !.history = Append(history,
                             [ action |-> "rollback",
                               source_model |-> NoModel,
                               backup_path |-> NoBackup ]) ]
                /\ last' = [op |-> "rollback_model", req |-> NoReq,
                            resp |-> [NoResp EXCEPT !.code = 200,
                                         !.status = "success",
                                         !.message = "Rolled back to previous model"]]
        /\ UNCHANGED << corrections, frequency, lexicon, type_lexicon, config,
                        cache, lexicons, migration, batch, accepted, calls >>

NextDeployment ==
    \/ \E model_filename \in Models \cup {"missing.pth"},
          now \in clock..MaxClock : DeployModel(model_filename, now)
    \/ \E now \in clock..MaxClock : RollbackModel(now)

SpecDeployment == Init /\ [][NextDeployment]_vars

(*************************** properties ************************************)
Count(seq, e) == Cardinality({i \in 1..Len(seq) : seq[i] = e})

IsPrefix(s, t) == Len(s) <= Len(t) /\ SubSeq(t, 1, Len(s)) = s

Saved == /\ last.op = "save_correction"
         /\ last.resp.message = "Correction saved successfully"

\* the number of accepted submissions of (original -> corrected)
Submissions(original_text, corrected_text) ==
    Cardinality({i \in 1..Len(accepted) :
                   /\ accepted[i].original_text = original_text
                   /\ accepted[i].corrected_text = corrected_text})

\* what the applicator makes of a fresh OCR token in the current state
Resolve(document_type, token) ==
    apply_lexicon_corrections(document_type, <<RawWord(token)>>, FALSE)
        .words[1].value

\* C1: a save_correction call whose original_text equals corrected_text
\* leaves the correction logs, the frequency counters and the lexicon
\* exactly as they were: no record is created and no counter changes.
C1_NoChangeIsFrame ==
    [][ ( /\ last'.op = "save_correction"
          /\ last'.req.original_text = last'.req.corrected_text )
        => UNCHANGED << corrections, frequency, lexicon, accepted >> ]_vars

\* a no-change submission served after corrections have been stored
C1_Witness ==
    /\ last.op = "save_correction"
    /\ last.resp.message = "No change detected"
    /\ corrections["docA"].data # EMPTY
    /\ DOMAIN frequency.data # {}
    /\ lexicon.data # EMPTY

\* C2: a submission whose original_text equals corrected_text is answered
\* with a rejection, never with a success result.
C2_NoChangeIsRejected ==
    ( /\ last.op = "save_correction"
      /\ last.req.original_text # EMPTY
      /\ last.req.original_text = last.req.corrected_text )
    => last.resp.status # "success"

\* C3: the correction store is append-only: no step removes or changes a
\* stored record, whatever happens to the read of the existing log, and an
\* accepted submission adds exactly one record.
C3_AppendOnly ==
    [][ /\ \A d \in Docs :
              IsPrefix(corrections[d].data, corrections'[d].data)
        /\ accepted' # accepted =>
              \E d \in Docs :
                  /\ Len(corrections'[d].data) = Len(corrections[d].data) + 1
                  /\ \A o \in Docs \ {d} :
                        corrections'[o].data = corrections[o].data
      ]_vars

\* C4: every submission that was answered as saved, by whichever session
\* and for whichever document, has its record in the store.
C4_NoLostRecord ==
    \A i \in 1..Len(accepted) :
        Count(corrections[accepted[i].document_id].data, accepted[i])
            >= Count(accepted, accepted[i])

\* C5: a lexicon entry K -> C exists only if the counter of (K, C) has
\* reached the configured threshold of the scope.
C5_EntryOnlyAtThreshold ==
    \A i \in 1..Len(lexicon.data) :
        FreqGet(frequency.data,
                correction_key(lexicon.data[i].k, lexicon.data[i].v))
            >= config.lexicon_learning_threshold

\* C6: with threshold 2, once the second identical submission of (X -> Y)
\* has been accepted, the lexicon holds X -> Y and an OCR batch with the
\* token X comes out with Y.
C6_PromotedThenApplied ==
    ( /\ Saved
      /\ config.lexicon_learning_threshold = 2
      /\ is_auto_correction_enabled(config, "document")
      /\ Submissions(last.req.original_text, last.req.corrected_text) >= 2 )
    => /\ lexicon.state = "ok"
       /\ DictHas(lexicon.data, last.req.original_text)
       /\ DictGet(lexicon.data, last.req.original_text)
             = last.req.corrected_text
       /\ Resolve("document", last.req.original_text)
             = last.req.corrected_text

\* C7: frequency counters are monotonic: no step decreases or removes a
\* counter, and an accepted submission adds one to the counter of its own
\* pair and leaves every other counter as it was.
C7_CountersMonotonic ==
    [][ /\ \A key \in DOMAIN frequency.data :
              FreqGet(frequency'.data, key) >= frequency.data[key]
        /\ accepted' # accepted =>
              LET key == correction_key(last'.req.original_text,
                                        last'.req.corrected_text)
              IN  frequency'.data =
                      FreqSet(frequency.data, key,
                              FreqGet(frequency.data, key) + 1)
      ]_vars

C9_IncrementAndPromotionAtomic ==
    [][ LET key == correction_key(last'.req.original_text,
                                  last'.req.corrected_text)
        IN  ( /\ last'.op = "save_correction"
              /\ last'.req.text_for_lexicon # EMPTY
              /\ FreqGet(frequency'.data, key) > FreqGet(frequency.data, key)
              /\ FreqGet(frequency'.data, key)
                    >= config.lexicon_learning_threshold )
            => /\ lexicon'.state = "ok"
               /\ DictHas(lexicon'.data, last'.req.text_for_lexicon)
               /\ DictGet(lexicon'.data, last'.req.text_for_lexicon)
                     = last'.req.corrected_text
      ]_vars

\* the stored corrections of the token X, over all documents
StoredFor(X) ==
    UNION { { corrections[d].data[i] : i \in
                { j \in 1..Len(corrections[d].data) :
                    corrections[d].data[j].original_text = X } } :
            d \in Docs }

\* C10: newest-wins: a token X for which corrections are stored resolves to
\* the corrected_text of a stored correction of X with the greatest
\* timestamp.
C10_NewestWins ==
    \A X \in Texts \ {EMPTY} :
        ( StoredFor(X) # {} /\ is_auto_correction_enabled(config, "document") )
        => LET newest == { e \in StoredFor(X) :
                             \A f \in StoredFor(X) :
                                 f.timestamp <= e.timestamp }
           IN  Resolve("document", X) \in { e.corrected_text : e \in newest }

\* the candidates the last resolved stream had for its i-th word
CandidatesAt(i) == candidates(batch.history, batch.in[i].value)

\* C11: whenever the resolver has candidates for a token, the value it
\* applies is the text of a candidate whose timestamp is maximal among all
\* candidates of any priority, and whose priority number is the lowest among
\* the candidates of that timestamp: priority only breaks timestamp ties.
C11_WinnerIsNewest ==
    last.op = "apply_corrections" =>
        \A i \in 1..Len(batch.in) :
            LET c == CandidatesAt(i)
            IN  c # EMPTY =>
                  \E w \in 1..Len(c) :
                      /\ batch.out[i].value = c[w].text
                      /\ \A x \in 1..Len(c) :
                            /\ c[x].timestamp <= c[w].timestamp
                            /\ c[x].timestamp = c[w].timestamp
                                  => c[w].priority <= c[x].priority

\* a newer case-insensitive, prefix or fuzzy candidate overrode an older
\* exact one
C11_Witness ==
    /\ last.op = "apply_corrections"
    /\ \E i \in 1..Len(batch.in) :
          LET c == CandidatesAt(i)
          IN  \E e, w \in 1..Len(c) :
                  /\ c[e].priority = 1
                  /\ c[w].priority > 1
                  /\ c[w].timestamp > c[e].timestamp
                  /\ c[w].text # c[e].text
                  /\ batch.out[i].value = c[w].text

\* C12: with the correction ("ABCDEF" -> "ABCXYZ") in the history, the token
\* "ABCDEF<<<" (suffix of length 3, below the bound 5) resolves to
\* "ABCXYZ<<<": the filler suffix is carried over to the corrected text.
C12_FillerSuffixKept ==
    (/\ last.op = "apply_corrections"
     /\ \E k \in 1..Len(batch.history) :
           /\ batch.history[k].original_text = ABCDEF
           /\ batch.history[k].corrected_text = ABCXYZ)
        => \A i \in 1..Len(batch.in) :
               batch.in[i].value = ABCDEF \o <<"<", "<", "<">>
                  => batch.out[i].value = ABCXYZ \o <<"<", "<", "<">>

\* C13: a correction recorded on one document is used when the stream of any
\* other document is resolved: a token equal to the original text of a
\* well-formed record of another document comes out with the corrected text
\* of a record for that original.
C13_GlobalPropagation ==
    last.op = "apply_corrections_to_export" =>
        \A k \in 1..Len(batch.log), i \in 1..Len(batch.in) :
            (/\ batch.log[k].kind = "ok"
             /\ batch.log[k].document_id # batch.document_id
             /\ batch.in[i].value = batch.log[k].original_text)
                => \E j \in 1..Len(batch.log) :
                       /\ batch.log[j].kind = "ok"
                       /\ batch.log[j].original_text = batch.in[i].value
                       /\ batch.out[i].value = batch.log[j].corrected_text

\* C14: resolving the same word stream again while the correction history is
\* unchanged gives the identical result (the same value and annotations for
\* every word), in whichever order the stored corrections are read back.
C14_ResolverIdempotent ==
    last.op = "apply_corrections" =>
        \A history \in ReadOrders(batch.document_id) :
            /\ apply_corrections(history, batch.in).words = batch.out
            /\ apply_corrections(history, batch.in).applied = batch.applied

\* C15: a submission is answered as saved only if its record and the learning
\* state written for it are stored: the log of the document is readable and
\* is the previous log with the new record appended (a log that could not be
\* loaded is not replaced by one that starts empty), the frequency file is
\* readable and counts the correction, and the lexicon file is readable and
\* holds the key.  Every other outcome is answered as a failure.
C15_FailureSurfaced ==
    [][ ( /\ last'.op = "save_correction"
          /\ last'.resp.status = "success"
          /\ accepted' # accepted )
        => LET e == accepted'[Len(accepted')]
               key == correction_key(e.original_text, e.corrected_text)
           IN  /\ corrections'[e.document_id].state = "ok"
               /\ corrections'[e.document_id].data
                     = Append(corrections[e.document_id].data, e)
               /\ frequency'.state = "ok"
               /\ FreqGet(frequency'.data, key) >= 1
               /\ lexicon'.state = "ok"
               /\ DictHas(lexicon'.data, last'.req.text_for_lexicon)
      ]_vars

\* C16: when the applicator cannot read the lexicon (the file is unreadable
\* and no cached copy stands in for it), the caller keeps the complete
\* original word stream and is given an outcome that differs from the one of
\* a run in which nothing matched (unchanged words, empty list, no error).
C16_ReadFailureSurfaced ==
    [][ ( /\ last'.op = "apply_lexicon_corrections"
          /\ is_auto_correction_enabled(config, batch'.document_type)
          /\ lexicon.state = "corrupt"
          /\ \/ ~cache["global"].loaded
             \/ cache["global"].timestamp < lexicon.mtime )
        => /\ batch'.out = batch'.in
           /\ << batch'.applied, last'.resp >> # << EMPTY, NoResp >>
      ]_vars

\* C17: a malformed line of the corrections log is skipped and nothing else:
\* every well-formed record of the document, before and after it, is loaded,
\* so the corrections loaded are exactly the well-formed records of the
\* document in the order of the log.
C17_MalformedSkipped ==
    last.op = "apply_corrections_to_export" =>
        LET WellFormed(line) == /\ line.kind = "ok"
                                /\ line.document_id = batch.document_id
        IN  batch.applied = SelectSeq(batch.log, WellFormed)

\* C18: when the global lexicon and the lexicon of the document type both
\* hold the key K, with different values, applying the lexicon for that type
\* to K gives the value of the type lexicon, for K as a word token and for K
\* as free text.
C18_TypeValueWins ==
    \A i \in 1..Len(lexicon.data) :
        LET K  == lexicon.data[i].k
            tl == type_lexicon[batch.document_type]
        IN  ( /\ last.op \in {"apply_lexicon_corrections", "normalize_text"}
              /\ lexicon.state = "ok"
              /\ tl.state = "ok"
              /\ DictHas(tl.data, K)
              /\ DictGet(tl.data, K) # lexicon.data[i].v
              /\ is_auto_correction_enabled(config, batch.document_type) )
            => /\ last.op = "apply_lexicon_corrections" =>
                    \A w \in 1..Len(batch.in) :
                        batch.in[w].value = K
                            => batch.out[w].value = DictGet(tl.data, K)
               /\ last.op = "normalize_text" =>
                    (batch.in = K => batch.out = DictGet(tl.data, K))

\* C19: a token that matches a lexicon key only when case is ignored comes
\* out as the stored value in the case pattern of the token: uppercased for
\* an all-uppercase token, title-cased for a title-case one, lowercased for
\* an all-lowercase one, and verbatim for any other pattern.
C19_CasePreserved ==
    ( /\ last.op = "apply_lexicon_corrections"
      /\ is_auto_correction_enabled(config, batch.document_type) )
    => LET lex == _load_lexicon(batch.document_type, FALSE).combined_lexicon
       IN  \A w \in 1..Len(batch.in) :
             LET t  == batch.in[w].value
                 ci == {i \in 1..Len(lex) : Lower(lex[i].k) = Lower(t)}
                 v  == lex[SetMin(ci)].v
             IN  (t # EMPTY /\ ~DictHas(lex, t) /\ ci # {}) =>
                   batch.out[w].value =
                     IF \A n \in 1..Len(t) : IsUpperChar(t[n]) THEN Upper(v)
                     ELSE IF /\ IsUpperChar(t[1])
                             /\ Len(t) > 1
                             /\ \A n \in 2..Len(t) : IsLowerChar(t[n])
                          THEN << UpperChar(v[1]) >> \o Lower(Tail(v))
                     ELSE IF \A n \in 1..Len(t) : IsLowerChar(t[n]) THEN Lower(v)
                     ELSE v

\* the title-case token "Ab" met the entry ("ab" -> "bA") and became "Ba"
C19_Witness ==
    /\ last.op = "apply_lexicon_corrections"
    /\ Len(batch.in) >= 1
    /\ batch.in[1].value = <<"A", "b">>
    /\ batch.out[1].value = <<"B", "a">>
    /\ batch.out[1].auto_corrected

\* C20: applying the lexicon to tokens or free text that already equal a
\* target value of the lexicon changes nothing and reports no correction,
\* and applying the lexicon again to what it returned changes nothing: for
\* word streams and for free text.
C20_ApplicatorIdempotent ==
    /\ ( /\ last.op = "apply_lexicon_corrections"
         /\ is_auto_correction_enabled(config, batch.document_type) )
       => LET lex == _load_lexicon(batch.document_type, FALSE).combined_lexicon
          IN  /\ (\A w \in 1..Len(batch.in) :
                      \E i \in 1..Len(lex) : lex[i].v = batch.in[w].value)
                    => (batch.out = batch.in /\ batch.applied = EMPTY)
              /\ \A w \in 1..Len(batch.out) :
                     correct_word(batch.out[w], lex).value = batch.out[w].value
    /\ last.op = "normalize_text"
       => /\ (\E i \in 1..Len(lexicon.data) : lexicon.data[i].v = batch.in)
                => (batch.out = batch.in /\ batch.applied = EMPTY)
          /\ normalize_apply_lexicon_corrections(batch.out, batch.document_type)
                .text = batch.out

\* C21: free-text application replaces a key only where it stands as a whole
\* word: when every occurrence of every key of the lexicon in the text has a
\* letter of a longer token right before or right after it, the text comes
\* out unchanged and no correction is reported.
C21_WholeWordOnly ==
    ( /\ last.op = "normalize_text"
      /\ lexicon.state = "ok"
      /\ type_lexicon[batch.document_type].state = "absent"
      /\ \A i \in 1..Len(lexicon.data), p \in 1..Len(batch.in) :
            LET k == lexicon.data[i].k
                e == p + Len(k) - 1
            IN  (e <= Len(batch.in) /\ Lower(SubSeq(batch.in, p, e)) = Lower(k))
                  => \/ (p > 1 /\ IsWordChar(batch.in[p - 1]))
                     \/ (e < Len(batch.in) /\ IsWordChar(batch.in[e + 1])) )
    => (batch.out = batch.in /\ batch.applied = EMPTY)

\* no key of the lexicon matches the token by any strategy: exactly, with
\* case ignored, or with whitespace normalised
LookupMiss(lex, t) ==
    \A i \in 1..Len(lex) :
        /\ lex[i].k # t
        /\ Lower(lex[i].k) # Lower(t)
        /\ _normalize_for_comparison(lex[i].k) # _normalize_for_comparison(t)

\* C22: a token that no lexicon key matches by any strategy passes through:
\* the word comes out exactly as it went in (same text, not marked corrected
\* or auto-corrected, no original value recorded) and nothing is added for it
\* to the corrections-applied list.
C22_LookupMissPassesThrough ==
    ( /\ last.op = "apply_lexicon_corrections"
      /\ is_auto_correction_enabled(config, batch.document_type) )
    => LET lex == _load_lexicon(batch.document_type, FALSE).combined_lexicon
       IN  \A w \in 1..Len(batch.in) :
             LookupMiss(lex, Strip(batch.in[w].value)) =>
                /\ batch.out[w] = batch.in[w]
                /\ ~batch.out[w].auto_corrected
                /\ ~batch.out[w].corrected
                /\ \A a \in 1..Len(batch.applied) :
                       batch.applied[a][1] # Strip(batch.in[w].value)

\* a token missed a lexicon that has entries
C22_Witness ==
    /\ last.op = "apply_lexicon_corrections"
    /\ _load_lexicon(batch.document_type, FALSE).combined_lexicon # EMPTY
    /\ Len(batch.in) >= 1
    /\ LookupMiss(_load_lexicon(batch.document_type, FALSE).combined_lexicon,
                  batch.in[1].value)
    /\ batch.out[1].value = batch.in[1].value

\* C23: in every state the learning threshold returned for every scope, the
\* global one and that of each document type, is an integer >= 1.
C23_ThresholdAtLeastOne ==
    \A document_type \in DocTypes :
        /\ get_learning_threshold(config, document_type) \in Nat
        /\ get_learning_threshold(config, document_type) >= 1

\* C24: a word that carries a correction mark has as original_value its raw
\* OCR text: export-time integration on a word that was corrected before
\* leaves the original value that was recorded first.
C24_OriginalValueKept ==
    last.op = "apply_corrections_to_export" =>
        \A i \in 1..Len(batch.out) :
            (batch.out[i].corrected \/ batch.out[i].auto_corrected) =>
                batch.out[i].original_value =
                    IF batch.in[i].original_value # ABSENT
                    THEN batch.in[i].original_value
                    ELSE batch.in[i].value

\* C25: for a submission whose counter has reached the threshold, the
\* reported lexicon_updated flag is true exactly when the stored lexicon
\* changed: the entry was inserted, or overwritten with a different value.
C25_FlagIffLexiconChanged ==
    [][ ( /\ last'.op = "save_correction"
          /\ last'.resp.status = "success"
          /\ accepted' # accepted
          /\ last'.resp.correction_frequency
                >= config.lexicon_learning_threshold )
        => ( last'.resp.lexicon_updated <=> lexicon' # lexicon )
      ]_vars

\* C26: a promotion happens at the threshold the configuration gives: when a
\* submission enters or overwrites a lexicon entry, the counter of its
\* correction has reached the threshold configured for some document type
\* (the type's own threshold, or the global default for a type without one).
C26_ThresholdFromConfig ==
    [][ ( /\ last'.op = "save_correction"
          /\ last'.resp.lexicon_updated
          /\ lexicon' # lexicon )
        => \E document_type \in DocTypes :
               last'.resp.correction_frequency
                   >= get_learning_threshold(config, document_type)
      ]_vars

\* the orders in which the entries of one key-to-value mapping may be stored
StorageOrders(lex) ==
    IF lex = EMPTY THEN { EMPTY }
    ELSE { [i \in 1..Len(lex) |-> lex[p[i]]] :
             p \in Permutations(1..Len(lex)) }

\* C27: the value the applicator finds for a token is determined by the
\* key-to-value mapping of the lexicon alone: the same entries stored in
\* another order give every token of the batch the same value.
C27_OrderIndependent ==
    last.op = "apply_lexicon_corrections" =>
        LET lex == DictUpdate(lexicon.data,
                              type_lexicon[batch.document_type].data)
        IN  \A i \in 1..Len(batch.in) :
                \A o \in StorageOrders(lex) :
                    _find_correction(batch.in[i].value, o)
                        = _find_correction(batch.in[i].value, lex)

\* the deployment history before the last rollback request was served
HistoryBeforeRollback ==
    IF last.resp.code = 200
    THEN SubSeq(deployment.history, 1, Len(deployment.history) - 1)
    ELSE deployment.history

\* C28: a rollback requested after two or more successful deployments
\* m1, ..., mn (and nothing else) succeeds and leaves m(n-1) active.
C28_RollbackRestoresPrevious ==
    LET h == HistoryBeforeRollback
    IN  ( /\ last.op = "rollback_model"
          /\ Len(h) >= 2
          /\ \A i \in 1..Len(h) : h[i].action = "deploy" )
        => /\ last.resp.code = 200
           /\ deployment.active = h[Len(h) - 1].source_model

\* C29: an upload that follows a completed write of the lexicon file is
\* corrected with the contents that write stored: every word of the batch
\* comes out as the stored lexicon of its scope corrects it, also when the
\* file was rewritten with the modification time it had before.
C29_CacheServesLastWrite ==
    ( /\ last.op = "apply_lexicon_corrections"
      /\ is_auto_correction_enabled(config, batch.document_type)
      /\ lexicon.state = "ok"
      /\ type_lexicon[batch.document_type].state # "corrupt" )
    => LET stored == DictUpdate(lexicon.data,
                                type_lexicon[batch.document_type].data)
       IN  \A w \in 1..Len(batch.in) :
               batch.out[w] = correct_word(batch.in[w], stored)

\* C30: no entry of the lexicon maps a key to itself, whatever submissions
\* were accepted: also one whose displayed text differs from the correction
\* while the text OCR first read equals the correction.
C30_NoSelfMapping ==
    \A i \in 1..Len(lexicon.data) : lexicon.data[i].k # lexicon.data[i].v

=============================================================================
